---------------------------- MODULE Spec2Model ----------------------------
(***************************************************************************)
(* State-machine model of src/main.cpp: the competition script of a small  *)
(* two-motor robot (FEH Proteus).  main() is a linear, blocking script of  *)
(* motion primitives (move, move_failsafe, move_to_light, turn), servo     *)
(* commands, sleeps, one light-colour read and one RCS lever query.  Every *)
(* busy-wait loop of the source is a poll action here; what the vendor     *)
(* hardware returns to a poll (encoder counts, clock, CdS voltage, lever   *)
(* id) is an input drawn from a small set.                                 *)
(*                                                                         *)
(* Units (floats of the source become scaled integers):                    *)
(*   distances in the script      hundredths of an inch (6.25 in = 625)    *)
(*   calculate_distance, arcs     1e-5 inch                                *)
(*   angles                       tenths of a degree (81.5 deg = 815)      *)
(*   times                        milliseconds                             *)
(*   voltages                     hundredths of a volt (1.7 V = 170)       *)
(*   motor percents, servo angles as written                               *)
(***************************************************************************)
EXTENDS Integers, Sequences, FiniteSets, TLC

\* ----------------------------------------------------------------- bounds
\* Encoder counts seen by two successive polls differ by 0 or CountStep.
CountStep == 400
\* An encoder stops being advanced once its count has reached MaxCounts
\* (above the 962 counts the longest untimed move, 28.5 in, needs).
MaxCounts == 1000
\* Two successive TimeNow() readings of a busy-wait loop differ by 0 or TickStep ms.
TickStep == 250
\* RCS.GetCorrectLever() answers a value in 0..MaxLever (0, 1, 2 are the levers).
MaxLever == 3

\* --------------------------------------------------------------- constants
LEFT == 0
RIGHT == 1
REVERSE == -1
FORWARD == 1
COUNTS_PER_REVOLUTION == 318
RADIUS_OF_TURN == 4
SERVO_MIN == 1291
SERVO_MAX == 2313
COLOR_THRESHOLD == 170
\* M_PI, times 10^4
PI_E4 == 31416

\* Voltages the CdS cell may return, on both sides of and exactly at the
\* three thresholds the script compares it with (1.7, 2.0, 2.2).
CdsValues == {160, 170, 180, 200, 210, 220, 230}
LeverValues == 0 .. MaxLever

\* ----------------------------------------------------------------- script
\* One record per statement of main().  a, b, c, d are the call's arguments.
Ins(op, a, b, c, d, line) ==
    [op |-> op, a |-> a, b |-> b, c |-> c, d |-> d, line |-> line]
\* move(distance, direction = 1, speed = 40.)
Move(distance, direction, line) == Ins("move", distance, direction, 40, 0, line)
MoveAt(distance, direction, speed, line) == Ins("move", distance, direction, speed, 0, line)
\* move_failsafe(distance, failsafe_duration, direction = 1, speed = 40.)
MoveFailsafe(distance, duration, direction, line) ==
    Ins("move_failsafe", distance, direction, 40, duration, line)
Turn(angle, direction, line) == Ins("turn", angle, direction, 0, 0, line)
MoveToLight(direction, line) == Ins("move_to_light", 0, direction, 0, 0, line)
MoveServo(angle, line) == Ins("move_servo", angle, 0, 0, 0, line)
SleepFor(ms, line) == Ins("Sleep", ms, 0, 0, 0, line)

\* init(); while(read_cds_sensor() > 2.0){}
StartSection ==
    << Ins("init", 0, 0, 0, 0, 292),
       Ins("start_gate", 200, 0, 0, 0, 294) >>

LuggageSection ==
    << MoveFailsafe(300, 750, REVERSE, 297),
       Move(100, FORWARD, 298),
       Turn(400, RIGHT, 299),
       Move(1800, FORWARD, 300),
       Turn(25, LEFT, 301),
       Move(1900, FORWARD, 302),
       Turn(870, LEFT, 303),
       Move(1225, FORWARD, 304),
       Turn(850, RIGHT, 305),
       Move(100, REVERSE, 306),
       \* for(float i = 180.; i >= 110.; i -= 10){ move_servo(i); Sleep(0.1); }
       Ins("for_init", 180, 0, 0, 0, 307),
       Ins("for_test", 110, 4, 0, 0, 307),
       Ins("move_servo_i", 0, 0, 0, 0, 308),
       SleepFor(100, 309),
       Ins("for_step", 10, -3, 0, 0, 307),
       MoveServo(180, 311),
       SleepFor(200, 312),
       Move(450, FORWARD, 313) >>

LightSection ==
    << Turn(870, LEFT, 317),
       MoveFailsafe(99900, 2000, FORWARD, 318),
       Move(875, REVERSE, 319),
       Turn(830, RIGHT, 320),
       MoveToLight(FORWARD, 321),
       Ins("read_light_color", 0, 0, 0, 0, 322),
       Move(200, REVERSE, 323),
       Turn(800, RIGHT, 324) >>

\* if(light_color == 1){ red } else { blue }
BoardingSection ==
    << Ins("if_color", 1, 8, 0, 0, 329),
       Move(625, FORWARD, 330),
       Turn(830, LEFT, 331),
       MoveAt(650, FORWARD, 55, 332),
       Move(700, REVERSE, 333),
       Turn(830, LEFT, 334),
       Move(750, FORWARD, 335),
       Ins("jump", 0, 7, 0, 0, 336),
       Move(900, FORWARD, 339),
       Turn(850, LEFT, 340),
       MoveAt(550, FORWARD, 55, 341),
       Move(700, REVERSE, 342),
       Turn(810, LEFT, 343),
       Move(1150, FORWARD, 344) >>

PassportSection ==
    << MoveServo(0, 348),
       Move(625, REVERSE, 349),
       SleepFor(1500, 350),
       MoveServo(135, 351),
       Turn(400, LEFT, 352),
       Turn(150, RIGHT, 353) >>

\* if(correctLever == 0){...} else if(correctLever == 1){...} else {}
FuelSection ==
    << MoveFailsafe(99900, 2750, FORWARD, 356),
       MoveServo(180, 357),
       Move(500, REVERSE, 358),
       Turn(815, RIGHT, 359),
       Ins("GetCorrectLever", 0, 0, 0, 0, 360),
       Move(2850, REVERSE, 362),
       Ins("if_lever", 0, 5, 0, 0, 363),
       Turn(830, LEFT, 365),
       Move(650, REVERSE, 366),
       Turn(830, RIGHT, 367),
       Ins("jump", 0, 7, 0, 0, 368),
       Ins("if_lever", 1, 6, 0, 0, 369),
       Turn(830, LEFT, 371),
       Move(300, REVERSE, 372),
       Turn(830, RIGHT, 373),
       Move(100, FORWARD, 374),
       Ins("jump", 0, 1, 0, 0, 375),
       MoveServo(45, 379),
       SleepFor(200, 380),
       Move(350, FORWARD, 381),
       MoveServo(0, 382),
       SleepFor(5000, 383),
       Move(275, REVERSE, 384),
       MoveServo(60, 385),
       SleepFor(300, 386) >>

FinalSection ==
    << Move(200, FORWARD, 389),
       MoveServo(180, 390),
       Move(400, REVERSE, 391),
       Turn(830, RIGHT, 392),
       MoveFailsafe(99900, 2500, FORWARD, 393),
       Move(350, REVERSE, 394),
       Turn(830, RIGHT, 395),
       MoveAt(1600, FORWARD, 45, 396),
       Turn(450, LEFT, 397),
       MoveAt(400, FORWARD, 60, 398),
       Ins("return", 0, 0, 0, 0, 400) >>

Script ==
    StartSection \o LuggageSection \o LightSection \o BoardingSection
        \o PassportSection \o FuelSection \o FinalSection

\* ------------------------------------------------------------------ state
VARIABLES
    pc,            \* index in Script of the statement of main() being run
    phase,         \* position inside that statement's function
    right_pct,     \* last percent given to right_motor.SetPercent
    left_pct,      \* last percent given to left_motor.SetPercent
    right_counts,  \* right_encoder.Counts()
    left_counts,   \* left_encoder.Counts()
    clock,         \* the last value TimeNow() returned, ms
    time,          \* local `time` of move_failsafe / read_light_color
    cell_reading,  \* the last value read_cds_sensor() returned
    voltage,       \* local `voltage` of read_light_color
    lcd,           \* the last line written to the LCD
    light_color,   \* main's light_color (0 before its declaration)
    correctLever,  \* main's correctLever (-1 before its declaration)
    servo_angle,   \* last angle given to servo_arm.SetDegree (-1: none yet)
    servo_limits,  \* <<min, max>> given to servo_arm.SetMin / SetMax
    i,             \* the loop variable of the servo sweep
    calls          \* history: the calls main() has made so far, in order

vars == << pc, phase, right_pct, left_pct, right_counts, left_counts, clock,
           time, cell_reading, voltage, lcd, light_color, correctLever,
           servo_angle, servo_limits, i, calls >>

Cur == Script[pc]

\* ------------------------------------------------------------- functions
\* float distance = (2 * M_PI * 1.5 * counts) / COUNTS_PER_REVOLUTION, in 1e-5 in
calculate_distance(counts) == (2 * PI_E4 * 15 * counts) \div COUNTS_PER_REVOLUTION

\* float rads = degrees * (M_PI / 180.0), in 1e-5 rad for tenths of a degree
deg_to_rads(degrees) == (degrees * PI_E4) \div 180

\* a script distance (hundredths of an inch) in the unit of calculate_distance
Inches(distance) == distance * 1000

\* a move that waits on the right encoder alone
move_waiting_right_only(rc, lc, distance) ==
    calculate_distance(rc) <= Inches(distance)

\* the condition of move's while loop
move_waiting(rc, lc, distance) ==
    calculate_distance(rc) <= Inches(distance)
        /\ calculate_distance(lc) <= Inches(distance)

\* a move_failsafe whose cutoff is joined with || instead of &&
move_failsafe_waiting_or(rc, lc, distance, now, start, failsafe_duration) ==
    \/ calculate_distance(rc) <= Inches(distance)
        /\ calculate_distance(lc) <= Inches(distance)
    \/ now < start + failsafe_duration

\* the condition of move_failsafe's while loop
move_failsafe_waiting(rc, lc, distance, now, start, failsafe_duration) ==
    /\ calculate_distance(rc) <= Inches(distance)
        /\ calculate_distance(lc) <= Inches(distance)
    /\ now < start + failsafe_duration

\* a turn that waits on both encoders, as move does
turn_waiting_both(rc, lc, angle) ==
    /\ calculate_distance(rc) <= RADIUS_OF_TURN * deg_to_rads(angle)
    /\ calculate_distance(lc) <= RADIUS_OF_TURN * deg_to_rads(angle)

\* the condition of turn's while loop
turn_waiting(rc, lc, angle) ==
    calculate_distance(rc) <= RADIUS_OF_TURN * deg_to_rads(angle)

\* a move_to_light that waits while the reading is low
move_to_light_waiting_inverted(reading) == reading <= 220

\* the condition of move_to_light's while loop
move_to_light_waiting(reading) == reading > 220

\* a start loop that waits on the booth light's threshold
start_waiting_booth(reading) == reading > 220

\* the condition of main's start loop
start_waiting(reading) == reading > Cur.a

\* a colour test that counts the threshold itself as blue
is_blue_inclusive(v) == v >= COLOR_THRESHOLD

\* the branch read_light_color takes on its last sample
is_blue(v) == v > COLOR_THRESHOLD

\* ---------------------------------------------------------------- helpers
\* a stop_motors that stops the left motor only
stop_motors_left_only == left_pct' = 0 /\ right_pct' = right_pct

stop_motors == left_pct' = 0 /\ right_pct' = 0

reset_motor_counts == right_counts' = 0 /\ left_counts' = 0

\* what an encoder may have added between two polls
Advance(pct, counts) ==
    IF pct # 0 /\ counts < MaxCounts THEN {0, CountStep} ELSE {0}

Motion == {"move", "move_failsafe", "turn", "move_to_light"}

\* ------------------------------------------------------------------- Init
Init ==
    /\ pc = 1
    /\ phase = "call"
    /\ right_pct = 0
    /\ left_pct = 0
    /\ right_counts = 0
    /\ left_counts = 0
    /\ clock = 0
    /\ time = 0
    /\ cell_reading = 0
    /\ voltage = 0
    /\ lcd = ""
    /\ light_color = 0
    /\ correctLever = -1
    /\ servo_angle = -1
    /\ servo_limits = << 0, 0 >>
    /\ i = 0
    /\ calls = << >>

\* ---------------------------------------------------------------- actions
\* init(): LCD.Clear(); RCS.InitializeTouchMenu(TEAM_ID); SetMin; SetMax
init ==
    /\ Cur.op = "init"
    /\ lcd' = ""
    /\ servo_limits' = << SERVO_MIN, SERVO_MAX >>
    /\ calls' = Append(calls, Cur)
    /\ pc' = pc + 1
    /\ UNCHANGED << phase, right_pct, left_pct, right_counts, left_counts,
                    clock, time, cell_reading, voltage, light_color,
                    correctLever, servo_angle, i >>

\* while(read_cds_sensor() > 2.0){}: one iteration, the cell returning v
start_gate(v) ==
    /\ Cur.op = "start_gate"
    /\ cell_reading' = v
    /\ pc' = IF start_waiting(v) THEN pc ELSE pc + 1
    /\ UNCHANGED << phase, right_pct, left_pct, right_counts, left_counts,
                    clock, time, voltage, lcd, light_color, correctLever,
                    servo_angle, servo_limits, i, calls >>

\* move(): SetPercent twice, reset_motor_counts()
move ==
    /\ Cur.op = "move" /\ phase = "call"
    /\ right_pct' = Cur.c * Cur.b
    /\ left_pct' = Cur.c * Cur.b
    /\ reset_motor_counts
    /\ phase' = "wait"
    /\ calls' = Append(calls, Cur)
    /\ UNCHANGED << pc, clock, time, cell_reading, voltage, lcd, light_color,
                    correctLever, servo_angle, servo_limits, i >>

\* one iteration of move's while loop, the encoders having added dr and dl
move_wait(dr, dl) ==
    /\ Cur.op = "move" /\ phase = "wait"
    /\ right_counts' = right_counts + dr
    /\ left_counts' = left_counts + dl
    /\ phase' = IF move_waiting(right_counts', left_counts', Cur.a)
                THEN "wait" ELSE "stop"
    /\ UNCHANGED << pc, right_pct, left_pct, clock, time, cell_reading,
                    voltage, lcd, light_color, correctLever, servo_angle,
                    servo_limits, i, calls >>

\* move_failsafe(): as move(), then float time = TimeNow()
move_failsafe ==
    /\ Cur.op = "move_failsafe" /\ phase = "call"
    /\ right_pct' = Cur.c * Cur.b
    /\ left_pct' = Cur.c * Cur.b
    /\ reset_motor_counts
    /\ time' = clock
    /\ phase' = "wait"
    /\ calls' = Append(calls, Cur)
    /\ UNCHANGED << pc, clock, cell_reading, voltage, lcd, light_color,
                    correctLever, servo_angle, servo_limits, i >>

\* one iteration of move_failsafe's while loop: the encoders having added dr
\* and dl, TimeNow() returning dt more than at its last reading
move_failsafe_wait(dr, dl, dt) ==
    /\ Cur.op = "move_failsafe" /\ phase = "wait"
    /\ right_counts' = right_counts + dr
    /\ left_counts' = left_counts + dl
    /\ clock' = clock + dt
    /\ phase' = IF move_failsafe_waiting(right_counts', left_counts', Cur.a,
                                         clock', time, Cur.d)
                THEN "wait" ELSE "stop"
    /\ UNCHANGED << pc, right_pct, left_pct, time, cell_reading, voltage, lcd,
                    light_color, correctLever, servo_angle, servo_limits, i,
                    calls >>

\* turn(): SetPercent by direction, reset_motor_counts()
turn ==
    /\ Cur.op = "turn" /\ phase = "call"
    /\ IF Cur.b = 0
       THEN right_pct' = 40 /\ left_pct' = -40
       ELSE right_pct' = -40 /\ left_pct' = 40
    /\ reset_motor_counts
    /\ phase' = "wait"
    /\ calls' = Append(calls, Cur)
    /\ UNCHANGED << pc, clock, time, cell_reading, voltage, lcd, light_color,
                    correctLever, servo_angle, servo_limits, i >>

\* one iteration of turn's while loop
turn_wait(dr, dl) ==
    /\ Cur.op = "turn" /\ phase = "wait"
    /\ right_counts' = right_counts + dr
    /\ left_counts' = left_counts + dl
    /\ phase' = IF turn_waiting(right_counts', left_counts', Cur.a)
                THEN "wait" ELSE "stop"
    /\ UNCHANGED << pc, right_pct, left_pct, clock, time, cell_reading,
                    voltage, lcd, light_color, correctLever, servo_angle,
                    servo_limits, i, calls >>

\* move_to_light(): SetPercent twice, reset_motor_counts()
move_to_light ==
    /\ Cur.op = "move_to_light" /\ phase = "call"
    /\ right_pct' = 40 * Cur.b
    /\ left_pct' = 40 * Cur.b
    /\ reset_motor_counts
    /\ phase' = "wait"
    /\ calls' = Append(calls, Cur)
    /\ UNCHANGED << pc, clock, time, cell_reading, voltage, lcd, light_color,
                    correctLever, servo_angle, servo_limits, i >>

\* one iteration of move_to_light's while loop, the cell returning v (the
\* encoders are not read here, nor before the next reset)
move_to_light_wait(v) ==
    /\ Cur.op = "move_to_light" /\ phase = "wait"
    /\ cell_reading' = v
    /\ phase' = IF move_to_light_waiting(v) THEN "wait" ELSE "stop"
    /\ UNCHANGED << pc, right_pct, left_pct, right_counts, left_counts, clock,
                    time, voltage, lcd, light_color, correctLever, servo_angle,
                    servo_limits, i, calls >>

\* the stop_motors() that follows the while loop of each motion function
motion_stop ==
    /\ Cur.op \in Motion /\ phase = "stop"
    /\ stop_motors
    /\ phase' = "sleep"
    /\ UNCHANGED << pc, right_counts, left_counts, clock, time, cell_reading,
                    voltage, lcd, light_color, correctLever, servo_angle,
                    servo_limits, i, calls >>

\* the Sleep(0.5) that ends each motion function, and its return
motion_sleep ==
    /\ Cur.op \in Motion /\ phase = "sleep"
    /\ clock' = clock + 500
    /\ phase' = "call"
    /\ pc' = pc + 1
    /\ UNCHANGED << right_pct, left_pct, right_counts, left_counts, time,
                    cell_reading, voltage, lcd, light_color, correctLever,
                    servo_angle, servo_limits, i, calls >>

\* read_light_color(): int light_color; float voltage; float time = TimeNow();
\* voltage is not initialized: it holds whatever g the stack held
read_light_color(g) ==
    /\ Cur.op = "read_light_color" /\ phase = "call"
    /\ voltage' = g
    /\ time' = clock
    /\ phase' = "sample"
    /\ calls' = Append(calls, Cur)
    /\ UNCHANGED << pc, right_pct, left_pct, right_counts, left_counts, clock,
                    cell_reading, lcd, light_color, correctLever, servo_angle,
                    servo_limits, i >>

\* one test of while(TimeNow() < time + 1): in the window the body samples the
\* cell (v); past it the LCD is cleared, time is sampled again and the colour
\* branch is taken and shown
read_light_color_sample(v, dt) ==
    /\ Cur.op = "read_light_color" /\ phase = "sample"
    /\ clock' = clock + dt
    /\ IF clock' < time + 1000
       THEN /\ cell_reading' = v
            /\ voltage' = v
            /\ UNCHANGED << phase, time, lcd >>
       ELSE /\ time' = clock'
            /\ lcd' = IF is_blue(voltage) THEN "Blue" ELSE "Red"
            /\ phase' = "show"
            /\ UNCHANGED << cell_reading, voltage >>
    /\ UNCHANGED << pc, right_pct, left_pct, right_counts, left_counts,
                    light_color, correctLever, servo_angle, servo_limits, i,
                    calls >>

\* one test of while(TimeNow() < time + 0.5){} of the branch taken; past it
\* light_color is set, returned and stored in main's light_color
read_light_color_show(dt) ==
    /\ Cur.op = "read_light_color" /\ phase = "show"
    /\ clock' = clock + dt
    /\ IF clock' < time + 500
       THEN UNCHANGED << pc, phase, light_color >>
       ELSE /\ light_color' = IF lcd = "Blue" THEN 2 ELSE 1
            /\ phase' = "call"
            /\ pc' = pc + 1
    /\ UNCHANGED << right_pct, left_pct, right_counts, left_counts, time,
                    cell_reading, voltage, lcd, correctLever, servo_angle,
                    servo_limits, i, calls >>

\* move_servo(angle): servo_arm.SetDegree(angle)
move_servo ==
    /\ Cur.op \in {"move_servo", "move_servo_i"}
    /\ LET angle == IF Cur.op = "move_servo_i" THEN i ELSE Cur.a
       IN  /\ servo_angle' = angle
           /\ calls' = Append(calls, [Cur EXCEPT !.op = "move_servo", !.a = angle])
    /\ pc' = pc + 1
    /\ UNCHANGED << phase, right_pct, left_pct, right_counts, left_counts,
                    clock, time, cell_reading, voltage, lcd, light_color,
                    correctLever, servo_limits, i >>

\* a Sleep of main
Sleep ==
    /\ Cur.op = "Sleep"
    /\ clock' = clock + Cur.a
    /\ calls' = Append(calls, Cur)
    /\ pc' = pc + 1
    /\ UNCHANGED << phase, right_pct, left_pct, right_counts, left_counts,
                    time, cell_reading, voltage, lcd, light_color, correctLever,
                    servo_angle, servo_limits, i >>

\* a sweep whose test is i > 110
servo_sweep_strict ==
    /\ \/ Cur.op = "for_init" /\ i' = Cur.a /\ pc' = pc + 1
       \/ Cur.op = "for_test" /\ i' = i
            /\ pc' = IF i > Cur.a THEN pc + 1 ELSE pc + Cur.b
       \/ Cur.op = "for_step" /\ i' = i - Cur.a /\ pc' = pc + Cur.b
    /\ UNCHANGED << phase, right_pct, left_pct, right_counts, left_counts,
                    clock, time, cell_reading, voltage, lcd, light_color,
                    correctLever, servo_angle, servo_limits, calls >>

\* for(float i = 180.; i >= 110.; i -= 10): initialisation, test, step
servo_sweep ==
    /\ \/ Cur.op = "for_init" /\ i' = Cur.a /\ pc' = pc + 1
       \/ Cur.op = "for_test" /\ i' = i
            /\ pc' = IF i >= Cur.a THEN pc + 1 ELSE pc + Cur.b
       \/ Cur.op = "for_step" /\ i' = i - Cur.a /\ pc' = pc + Cur.b
    /\ UNCHANGED << phase, right_pct, left_pct, right_counts, left_counts,
                    clock, time, cell_reading, voltage, lcd, light_color,
                    correctLever, servo_angle, servo_limits, calls >>

\* int correctLever = RCS.GetCorrectLever(), the course answering id
get_correct_lever(id) ==
    /\ Cur.op = "GetCorrectLever"
    /\ correctLever' = id
    /\ calls' = Append(calls, Cur)
    /\ pc' = pc + 1
    /\ UNCHANGED << phase, right_pct, left_pct, right_counts, left_counts,
                    clock, time, cell_reading, voltage, lcd, light_color,
                    servo_angle, servo_limits, i >>

\* branches that take the red sequence when the colour is not 1
branch_color_swapped ==
    /\ \/ Cur.op = "if_color"
            /\ pc' = IF light_color # Cur.a THEN pc + 1 ELSE pc + Cur.b
       \/ Cur.op = "if_lever"
            /\ pc' = IF correctLever = Cur.a THEN pc + 1 ELSE pc + Cur.b
       \/ Cur.op = "jump" /\ pc' = pc + Cur.b
    /\ UNCHANGED << phase, right_pct, left_pct, right_counts, left_counts,
                    clock, time, cell_reading, voltage, lcd, light_color,
                    correctLever, servo_angle, servo_limits, i, calls >>

\* branches that number the levers 1, 2, 3
branch_lever_from_one ==
    /\ \/ Cur.op = "if_color"
            /\ pc' = IF light_color = Cur.a THEN pc + 1 ELSE pc + Cur.b
       \/ Cur.op = "if_lever"
            /\ pc' = IF correctLever = Cur.a + 1 THEN pc + 1 ELSE pc + Cur.b
       \/ Cur.op = "jump" /\ pc' = pc + Cur.b
    /\ UNCHANGED << phase, right_pct, left_pct, right_counts, left_counts,
                    clock, time, cell_reading, voltage, lcd, light_color,
                    correctLever, servo_angle, servo_limits, i, calls >>

\* if(light_color == 1), if(correctLever == ..), and the ends of their branches
branch ==
    /\ \/ Cur.op = "if_color"
            /\ pc' = IF light_color = Cur.a THEN pc + 1 ELSE pc + Cur.b
       \/ Cur.op = "if_lever"
            /\ pc' = IF correctLever = Cur.a THEN pc + 1 ELSE pc + Cur.b
       \/ Cur.op = "jump" /\ pc' = pc + Cur.b
    /\ UNCHANGED << phase, right_pct, left_pct, right_counts, left_counts,
                    clock, time, cell_reading, voltage, lcd, light_color,
                    correctLever, servo_angle, servo_limits, i, calls >>

\* the steps of the program that wait for nothing
Step ==
    \/ init
    \/ move
    \/ move_failsafe
    \/ turn
    \/ move_to_light
    \/ motion_stop
    \/ motion_sleep
    \/ move_servo
    \/ Sleep
    \/ servo_sweep
    \/ branch
    \/ \E g \in CdsValues \cup {0} : read_light_color(g)
    \/ \E id \in LeverValues : get_correct_lever(id)

\* the iterations of the busy-wait loops
Poll ==
    \/ \E v \in CdsValues : start_gate(v)
    \/ \E dr \in Advance(right_pct, right_counts),
          dl \in Advance(left_pct, left_counts) : move_wait(dr, dl)
    \/ \E dr \in Advance(right_pct, right_counts),
          dl \in Advance(left_pct, left_counts),
          dt \in {0, TickStep} : move_failsafe_wait(dr, dl, dt)
    \/ \E dr \in Advance(right_pct, right_counts),
          dl \in Advance(left_pct, left_counts) : turn_wait(dr, dl)
    \/ \E v \in CdsValues : move_to_light_wait(v)
    \/ \E v \in CdsValues, dt \in {0, TickStep} : read_light_color_sample(v, dt)
    \/ \E dt \in {0, TickStep} : read_light_color_show(dt)

Next == Step \/ Poll

Spec == Init /\ [][Next]_vars

\* --------------------------------------------------------------- fairness
\* TimeNow() keeps advancing while a loop reads it.
ClockAdvances ==
    \/ \E dr \in Advance(right_pct, right_counts),
          dl \in Advance(left_pct, left_counts) :
            move_failsafe_wait(dr, dl, TickStep)
    \/ \E v \in CdsValues : read_light_color_sample(v, TickStep)
    \/ read_light_color_show(TickStep)

\* The right (left) encoder's count keeps increasing while a loop reads it
\* and its motor is driven.
RightAdvances ==
    /\ CountStep \in Advance(right_pct, right_counts)
    /\ \E dl \in Advance(left_pct, left_counts) :
        \/ move_wait(CountStep, dl)
        \/ turn_wait(CountStep, dl)
        \/ \E dt \in {0, TickStep} : move_failsafe_wait(CountStep, dl, dt)

LeftAdvances ==
    /\ CountStep \in Advance(left_pct, left_counts)
    /\ \E dr \in Advance(right_pct, right_counts) :
        \/ move_wait(dr, CountStep)
        \/ turn_wait(dr, CountStep)
        \/ \E dt \in {0, TickStep} : move_failsafe_wait(dr, CountStep, dt)

\* The CdS reading drops to the start threshold, and to the light's.
StartLightSeen == \E v \in CdsValues : v <= 200 /\ start_gate(v)

BoothLightSeen == \E v \in CdsValues : v <= 220 /\ move_to_light_wait(v)

\* The program runs and the clock advances; the wheels may be stalled.
ClockSpec == Spec /\ WF_vars(Step) /\ WF_vars(ClockAdvances)

\* The program runs, the clock advances, driven wheels turn and both lights
\* are eventually seen.
LiveSpec ==
    /\ Spec
    /\ WF_vars(Step)
    /\ WF_vars(ClockAdvances)
    /\ WF_vars(RightAdvances)
    /\ WF_vars(LeftAdvances)
    /\ WF_vars(StartLightSeen)
    /\ WF_vars(BoothLightSeen)

\* ----------------------------------------------------------------- claims
LastCall == calls[Len(calls)]

Stopped == right_pct = 0 /\ left_pct = 0

\* main's last call was to the motion function f, which has returned
Returned(f) == Len(calls) > 0 /\ LastCall.op = f /\ phase = "call"

\* what a call is, without the line it is made at
Sig(c) == << c.op, c.a, c.b, c.c, c.d >>

\* the calls main made after its k-th one are, as far as made, those of E
Follows(k, E) ==
    \A j \in 1 .. Len(E) : k + j <= Len(calls) => Sig(calls[k + j]) = Sig(E[j])

CallsOf(f) == { k \in DOMAIN calls : calls[k].op = f }

\* an encoder's distance since the last reset exceeds d
Exceeds(d) ==
    \/ calculate_distance(right_counts) > Inches(d)
    \/ calculate_distance(left_counts) > Inches(d)

\* C1: move_failsafe always returns.  While its loop waits the clock is less
\* than failsafe_duration past the time sampled at its start (the iteration
\* that reads a later clock leaves the loop, whatever the encoders count);
\* with the clock advancing and the wheels possibly stalled, every call that
\* has started returns to main, and it returns with both motors at 0.
C1_FailsafeReturns ==
    /\ [](\A k \in CallsOf("move_failsafe") :
            << calls[k].a, calls[k].d >> \in
                { << 300, 750 >>, << 99900, 2000 >>, << 99900, 2750 >>,
                  << 99900, 2500 >> })
    /\ [](Cur.op = "move_failsafe" /\ phase = "wait" => clock < time + Cur.d)
    /\ [](Cur.op = "move_failsafe" /\ phase = "sleep" => Stopped)
    /\ (Cur.op = "move_failsafe" /\ phase = "wait")
            ~> (Returned("move_failsafe") /\ Stopped)

\* C1 witness: the fourth call (2.5 s) left its loop on the clock with
\* neither encoder having counted.
C1_Witness ==
    /\ Cur.op = "move_failsafe" /\ Cur.d = 2500 /\ phase = "sleep"
    /\ right_counts = 0 /\ left_counts = 0
    /\ clock >= time + Cur.d

\* C3: with the clock advancing, driven wheels turning and both lights seen,
\* main reaches return 0 with both motors at 0.
C3_MainReturns == <>(Cur.op = "return" /\ Stopped)

\* C3 witness: main at return 0 after a blue light and an out-of-range lever.
C3_Witness ==
    Cur.op = "return" /\ Stopped /\ light_color = 2 /\ correctLever = 3

\* C2: the light colour is read once.  read_light_color is called at most
\* once, right after move_to_light, which returned on a reading <= 2.2 with
\* the motors stopped; main's light_color is set by that call only; the calls
\* that follow it are move 2.0 back, turn 80 right and then the red sequence
\* (from move 6.25) if it returned 1, the blue one (from move 9.0) otherwise;
\* the cell is not read again once the colour is returned.
C2_SingleColorRead ==
    /\ Cardinality(CallsOf("read_light_color")) <= 1
    /\ Returned("move_to_light") => Stopped /\ cell_reading <= 220
    /\ Cur.op = "read_light_color" => Stopped
    /\ light_color # 0 => light_color \in {1, 2} /\ cell_reading = voltage
    /\ Cur.op = "return" => Cardinality(CallsOf("read_light_color")) = 1
    /\ \A k \in CallsOf("read_light_color") :
        /\ k > 1 /\ calls[k - 1].op = "move_to_light"
        /\ Len(calls) > k => light_color # 0
        /\ Follows(k, << Move(200, REVERSE, 0), Turn(800, RIGHT, 0) >>
                        \o (IF light_color = 1
                            THEN << Move(625, FORWARD, 0), Turn(830, LEFT, 0),
                                    MoveAt(650, FORWARD, 55, 0),
                                    Move(700, REVERSE, 0), Turn(830, LEFT, 0),
                                    Move(750, FORWARD, 0) >>
                            ELSE << Move(900, FORWARD, 0), Turn(850, LEFT, 0),
                                    MoveAt(550, FORWARD, 55, 0),
                                    Move(700, REVERSE, 0), Turn(810, LEFT, 0),
                                    Move(1150, FORWARD, 0) >>)
                        \o << MoveServo(0, 0) >>)

\* C2 witness: the call returned 1 and the red sequence has been run.
C2_Witness ==
    /\ light_color = 1
    /\ \E k \in CallsOf("read_light_color") :
        Len(calls) >= k + 9 /\ calls[k + 3].a = 625

\* C4: read_light_color returns 1 or 2, and 2 exactly when the last voltage
\* sampled in its window is above 1.7: the voltage it tests, the colour it
\* shows and the value it returns are those of the last sample.
C4_ColorOfLastSample ==
    /\ Cur.op = "read_light_color" /\ phase = "show" =>
        /\ voltage = cell_reading
        /\ lcd = (IF cell_reading > COLOR_THRESHOLD THEN "Blue" ELSE "Red")
    /\ light_color # 0 =>
        /\ light_color \in {1, 2}
        /\ light_color = 2 <=> cell_reading > COLOR_THRESHOLD

\* C4 witness: red returned on a last sample of exactly 1.7 V.
C4_Witness == light_color = 1 /\ cell_reading = COLOR_THRESHOLD

\* C5: move drives both motors at speed * direction while both encoders'
\* distances are within the requested one, leaves its loop only with one of
\* them strictly beyond it, and returns with both motors at 0.
C5_MoveContract ==
    /\ Cur.op = "move" /\ phase \in {"wait", "stop"} =>
        /\ right_pct = Cur.c * Cur.b /\ left_pct = Cur.c * Cur.b
        /\ (Cur.b = FORWARD /\ right_pct > 0) \/ (Cur.b = REVERSE /\ right_pct < 0)
        /\ phase = "wait" <=> ~Exceeds(Cur.a)
    /\ Cur.op = "move" /\ phase = "sleep" => Stopped /\ Exceeds(Cur.a)
    /\ Returned("move") => Stopped /\ Exceeds(LastCall.a)

\* C5 witness: a reverse move has left its loop on the left encoder alone.
C5_Witness ==
    /\ Cur.op = "move" /\ phase = "stop" /\ Cur.b = REVERSE
    /\ calculate_distance(left_counts) > Inches(Cur.a)
    /\ calculate_distance(right_counts) <= Inches(Cur.a)

\* C6: turn drives the motors at +40/-40 (left turn: right motor forward),
\* waits while the right encoder's arc is within RADIUS_OF_TURN * radians,
\* whatever the left encoder counts, and returns with both motors at 0.
C6_TurnContract ==
    /\ Cur.op = "turn" /\ phase \in {"wait", "stop"} =>
        /\ right_pct = (IF Cur.b = LEFT THEN 40 ELSE -40)
        /\ left_pct = -right_pct
        /\ phase = "wait" <=>
            (calculate_distance(right_counts)
                <= RADIUS_OF_TURN * deg_to_rads(Cur.a))
    /\ Cur.op = "turn" /\ phase = "sleep" =>
        /\ Stopped
        /\ calculate_distance(right_counts)
            > RADIUS_OF_TURN * deg_to_rads(Cur.a)
    /\ Returned("turn") =>
        /\ Stopped
        /\ calculate_distance(right_counts)
            > RADIUS_OF_TURN * deg_to_rads(LastCall.a)

\* C6 witness: a right turn still waits though the left encoder's arc is
\* beyond the angle.
C6_Witness ==
    /\ Cur.op = "turn" /\ phase = "wait" /\ Cur.b = RIGHT
    /\ calculate_distance(left_counts) > RADIUS_OF_TURN * deg_to_rads(Cur.a)

\* the angles main has given to move_servo, in order
ServoCalls == SelectSeq(calls, LAMBDA c : c.op = "move_servo")

\* C7: the first nine servo commands are 180, 170, ..., 110 from the sweep
\* loop and 180 after it, the loop ending with i = 100; every angle given to
\* move_servo is in 0..180.
C7_ServoSweep ==
    LET sweep == << 180, 170, 160, 150, 140, 130, 120, 110, 180 >>
    IN  /\ \A j \in DOMAIN ServoCalls :
            /\ ServoCalls[j].a \in 0 .. 180
            /\ j <= 9 => ServoCalls[j].a = sweep[j]
            /\ ServoCalls[j].line = 308 <=> j <= 8
        /\ servo_angle \in {-1} \cup 0 .. 180
        /\ Len(ServoCalls) >= 9 => i = 100
        /\ CallsOf("read_light_color") # {} => Len(ServoCalls) >= 9

\* C7 witness: the sweep is over and the arm is back at 180.
C7_Witness == Len(ServoCalls) = 9 /\ servo_angle = 180 /\ i = 100

\* C8: the lever id is fetched once, right before the 28.5 in reverse move;
\* then id 0 repositions left, id 1 repositions to the middle, any other id
\* repositions nothing, and the same press sequence follows (servo 45, a
\* 0.2 s sleep, forward 3.5, servo 0, a 5 s sleep, reverse 2.75, servo 60).
C8_LeverSelection ==
    /\ Cardinality(CallsOf("GetCorrectLever")) <= 1
    /\ correctLever = -1 <=> CallsOf("GetCorrectLever") = {}
    /\ Cur.op = "return" => Cardinality(CallsOf("GetCorrectLever")) = 1
    /\ \A k \in CallsOf("GetCorrectLever") :
        Follows(k, << Move(2850, REVERSE, 0) >>
                    \o (CASE correctLever = 0 ->
                               << Turn(830, LEFT, 0), Move(650, REVERSE, 0),
                                  Turn(830, RIGHT, 0) >>
                          [] correctLever = 1 ->
                               << Turn(830, LEFT, 0), Move(300, REVERSE, 0),
                                  Turn(830, RIGHT, 0), Move(100, FORWARD, 0) >>
                          [] OTHER -> << >>)
                    \o << MoveServo(45, 0), SleepFor(200, 0),
                          Move(350, FORWARD, 0), MoveServo(0, 0),
                          SleepFor(5000, 0), Move(275, REVERSE, 0),
                          MoveServo(60, 0) >>)

\* C8 witness: an id outside 0..2 went straight to the press sequence.
C8_Witness ==
    /\ correctLever = 3
    /\ \E k \in CallsOf("GetCorrectLever") :
        Len(calls) >= k + 8 /\ Sig(calls[k + 2]) = Sig(MoveServo(45, 0))

\* nothing but init() has been called and nothing has been commanded
Quiet == Stopped /\ servo_angle = -1 /\ Len(calls) <= 1

\* C9: init() runs first, and until the start loop has read a voltage <= 2.0
\* no motor is driven and no servo angle is commanded: the step that leaves
\* the loop is one that reads such a voltage.
C9_StartGate ==
    /\ [](Cur.op = "init" => Quiet /\ calls = << >>)
    /\ [](Cur.op = "start_gate" =>
            Quiet /\ Len(calls) = 1 /\ calls[1].op = "init"
                /\ servo_limits = << SERVO_MIN, SERVO_MAX >>)
    /\ [](~Quiet => Cur.op \notin {"init", "start_gate"})
    /\ [][Cur.op = "start_gate" /\ pc' # pc => cell_reading' <= 200]_vars

\* C9 witness: the first motion has started after a reading of exactly 2.0 V.
C9_Witness ==
    /\ Len(calls) = 2 /\ ~Stopped /\ cell_reading = 200

\* C10: a motor's commanded percent is non-zero only inside a motion
\* function, from its SetPercent calls to its stop_motors(); so both are 0
\* whenever main is at a servo command, a Sleep, read_light_color or
\* GetCorrectLever, and whenever a motion function has returned.
C10_StoppedBetweenCommands ==
    /\ ~Stopped => Cur.op \in Motion /\ phase \in {"wait", "stop"}
    /\ Cur.op \in {"move_servo", "move_servo_i", "Sleep", "read_light_color",
                   "GetCorrectLever", "return"} => Stopped
    /\ Cur.op \in Motion /\ phase \in {"call", "sleep"} => Stopped

\* C10 witness: the 5 s Sleep of the lever press is in progress, the arm down.
C10_Witness ==
    Cur.op = "Sleep" /\ Cur.a = 5000 /\ servo_angle = 0 /\ Stopped

=============================================================================
